---- MODULE Spec2Model ----
(***************************************************************************)
(* A model of two parts of statrs:                                         *)
(*   src/src/stats_tests/fisher.rs  Fisher's exact test on a 2x2 table     *)
(*   src/src/function/factorial.rs  factorial, checked_multinomial         *)
(*                                                                         *)
(* One call of a public function is one behaviour: Init draws the function *)
(* and its arguments, the actions are the steps of its body, pc = "done"   *)
(* is the return (or the panic) and ret is what the caller sees.           *)
(*                                                                         *)
(* Numbers.  u64 arithmetic is modelled at a scaled width of WordBits      *)
(* bits.  Three families of tables are drawn: ordinary tables of at most   *)
(* MaxCount observations, on which every sum and product the code forms    *)
(* stays below U64_MAX; tables with one entry the all-ones word U64_MAX    *)
(* and at most MaxRest observations in the others                          *)
(* (U64_MAX + k wraps to k - 1 at any width, so their sums overflow at     *)
(* 2^WordBits as they do at 2^64); and tables of at most MaxWide           *)
(* observations whose margins and population fit the word while the        *)
(* product (n + 1) * (n1 + 1) does not (entries near 2^32 at full width).  *)
(* An overflowing +, -, * panics when the build has overflow checks        *)
(* (debug profile) and wraps when it has not (release profile);            *)
(* overflow_checks is drawn in Init.                                       *)
(*                                                                         *)
(* Probabilities.  f64 probabilities of one hypergeometric distribution    *)
(* are numerators over the common denominator Total(d) = C(population,     *)
(* draws), so that every comparison of the code is an exact comparison of  *)
(* integers; the tolerance EPSILON = 1 - 1e-4 is the fraction              *)
(* EpsNum / EpsDen.  A returned p-value carries a rounding term ulp in     *)
(* RoundErr: the value is num/den + ulp * (one unit in the last place).    *)
(***************************************************************************)
EXTENDS Integers, Sequences, FiniteSets, TLC

VARIABLES op, overflow_checks, table, alternative, pc,
          n1, n2, n, dist, p_exact, mode, p_tail,
          upper, min_val, max_val, guess,
          ndist, odds_ratio, ret,
          x, usize_bits, total, ni

vars == <<op, overflow_checks, table, alternative, pc,
          n1, n2, n, dist, p_exact, mode, p_tail,
          upper, min_val, max_val, guess,
          ndist, odds_ratio, ret,
          x, usize_bits, total, ni>>

\* ---------------------------------------------------------------- bounds
\* Largest number of observations in an ordinary contingency table.
MaxCount == 11
\* Largest ordinary group size of a multinomial coefficient.
MaxEntry == 4
\* Largest number of observations beside an entry that is the all-ones word.
MaxRest == 7
\* Largest number of observations in a table whose product (n + 1) * (n1 + 1)
\* overflows the word.
MaxWide == 19
\* Scaled width of the u64 type.
WordBits == 8

\* ------------------------------------------------------- program constants
\* const EPSILON: f64 = 1.0 - 1e-4, as the fraction EpsNum / EpsDen.
EpsNum == 9999
EpsDen == 10000

\* ------------------------------------------------------------ machine u64
RECURSIVE Pow2(_)
Pow2(k) == IF k = 0 THEN 1 ELSE 2 * Pow2(k - 1)

Modulus == Pow2(WordBits)
U64_MAX == Modulus - 1

\* The value of an expression whose evaluation panicked.
PANIC == -1

\* u + w on u64 (the + operator).
UAdd(u, w) ==
    IF u = PANIC \/ w = PANIC THEN PANIC
    ELSE IF u + w <= U64_MAX THEN u + w
    ELSE IF overflow_checks THEN PANIC
    ELSE (u + w) % Modulus

\* u - w on u64 (the - operator).
USub(u, w) ==
    IF u = PANIC \/ w = PANIC THEN PANIC
    ELSE IF u >= w THEN u - w
    ELSE IF overflow_checks THEN PANIC
    ELSE (u - w) % Modulus

\* u * w on u64 (the * operator).
UMul(u, w) ==
    IF u = PANIC \/ w = PANIC THEN PANIC
    ELSE IF u * w <= U64_MAX THEN u * w
    ELSE IF overflow_checks THEN PANIC
    ELSE (u * w) % Modulus

\* u / w on u64: division by zero panics in every build.
UDiv(u, w) ==
    IF u = PANIC \/ w = PANIC \/ w = 0 THEN PANIC
    ELSE u \div w

Min(u, w) == IF u <= w THEN u ELSE w
Max(u, w) == IF u >= w THEN u ELSE w

\* ------------------------------------------- the hypergeometric oracle
\* n choose k, by the multiplicative formula (exact at every step).
RECURSIVE Choose(_, _)
Choose(m, k) ==
    IF k < 0 \/ k > m THEN 0
    ELSE IF k = 0 THEN 1
    ELSE (Choose(m, k - 1) * (m - k + 1)) \div k

NoDist == [valid |-> FALSE, population |-> 0, successes |-> 0, draws |-> 0]

\* Hypergeometric::new(population, successes, draws): fails when successes or
\* draws exceed the population.
HypNew(population, successes, draws) ==
    IF successes > population \/ draws > population THEN NoDist
    ELSE [valid |-> TRUE, population |-> population,
          successes |-> successes, draws |-> draws]

\* The support of the distribution.
HypMin(d) == Max(0, d.draws + d.successes - d.population)
HypMax(d) == Min(d.successes, d.draws)

\* The common denominator of the distribution's probabilities.
Total(d) == Choose(d.population, d.draws)

\* pmf(k) * Total(d): 0 outside the support.
Pmf(d, k) ==
    IF k < HypMin(d) \/ k > HypMax(d) THEN 0
    ELSE Choose(d.successes, k) * Choose(d.population - d.successes, d.draws - k)

RECURSIVE SumPmf(_, _, _)
SumPmf(d, lo, hi) == IF lo > hi THEN 0 ELSE Pmf(d, hi) + SumPmf(d, lo, hi - 1)

\* cdf(k) * Total(d) = P(X <= k) * Total(d).
Cdf(d, k) ==
    IF k < HypMin(d) THEN 0
    ELSE SumPmf(d, HypMin(d), Min(k, HypMax(d)))

\* The rounding of a floating-point result, in units in the last place.
RoundErr == {-1, 0, 1}


\* ----------------------------------------------------------- factorial.rs
\* pub const MAX_FACTORIAL: usize = 170;
MAX_FACTORIAL == 170

\* The argument of factorial is held exactly, as four 16-bit limbs, most
\* significant first: the function converts it to usize.
Limb == Pow2(16)
Limbs(l3, l2, l1, l0) == <<l3, l2, l1, l0>>
UsizeWidths == {32, 64}
HighLimbs == {0, 1, Limb - 1}
LowLimbs == (0..(MAX_FACTORIAL + 3)) \cup {Limb - 1}
FactorialArgs ==
    {Limbs(l3, l2, l1, l0) : l3 \in HighLimbs, l2 \in HighLimbs, l1 \in HighLimbs,
                             l0 \in LowLimbs}

\* x as usize: the low bits of x (a 64-bit usize holds every u64).
AsUsize(v, bits) ==
    IF bits = 32 THEN Limbs(0, 0, v[3], v[4]) ELSE v

\* v < m, for a small m.
LimbsBelow(v, m) == v[1] = 0 /\ v[2] = 0 /\ v[3] = 0 /\ v[4] < m

\* An f64 that is a product of small integers is held as the sequence of its
\* factors: 1.0 is <<>> and v * i is Append(v, i).
Times(v, i) == Append(v, i)

\* const FCACHE: [f64; MAX_FACTORIAL + 1], lines 90-101: entry 0 is 1.0 and
\* fcache[i] = fcache[i - 1] * i as f64 for 1 <= i < MAX_FACTORIAL + 1.
CacheLen == MAX_FACTORIAL + 1
\* (The loop's result in closed form: entry i is the product 1 * 2 * ... * i.)
FCACHE == [i \in 0..(CacheLen - 1) |-> [k \in 1..i |-> k]]

\* FCACHE.get(x).map_or(f64::INFINITY, |&fac| fac) with x = x as usize: the
\* index of the entry returned, or -1 for +infinity.
INFINITY == -1
Factorial(v, bits) ==
    IF LimbsBelow(AsUsize(v, bits), CacheLen) THEN AsUsize(v, bits)[4] ELSE INFINITY

\* ln of an f64, as a formal quantity: huge * ln(U64_MAX!) + ln(num / den).
\* ln_factorial(x), lines 29-34: ln of the cache entry for x <= 170, and
\* ln_gamma(x + 1) beyond (the only such x drawn is U64_MAX).
RECURSIVE SmallFactorial(_)
SmallFactorial(k) == IF k = 0 THEN 1 ELSE k * SmallFactorial(k - 1)

LnFactorial(k) ==
    IF k <= MAX_FACTORIAL
    THEN [huge |-> 0, num |-> SmallFactorial(k), den |-> 1]
    ELSE [huge |-> 1, num |-> 1, den |-> 1]

\* acc.1 - ln_factorial(x)
LnMinus(l, m) ==
    [huge |-> l.huge - m.huge, num |-> l.num * m.den, den |-> l.den * m.num]

\* (0.5 + ret.exp()).floor(): -1 stands for +infinity.
RoundExp(l) ==
    IF l.huge > 0 THEN INFINITY
    ELSE IF l.huge < 0 THEN 0
    ELSE (2 * l.num + l.den) \div (2 * l.den)

\* The fold of lines 77-79 over groups[i..]: acc = (sum, ret).
RECURSIVE Fold(_, _, _)
Fold(acc, groups, i) ==
    IF i > Len(groups) THEN acc
    ELSE Fold([sum |-> UAdd(acc.sum, groups[i]),
               ln |-> LnMinus(acc.ln, LnFactorial(groups[i]))], groups, i + 1)

\* checked_multinomial(n, ni), lines 76-86.
CheckedMultinomial(nn, groups) ==
    LET acc == Fold([sum |-> 0, ln |-> LnFactorial(nn)], groups, 1)
    IN  IF acc.sum = PANIC THEN [tag |-> "Panic", value |-> 0]
        ELSE IF acc.sum = nn THEN [tag |-> "Some", value |-> RoundExp(acc.ln)]
        ELSE [tag |-> "None", value |-> 0]

\* The arguments drawn for the multinomial functions.
MaxGroups == 2
GroupSizes == (0..MaxEntry) \cup {U64_MAX}
GroupLists == UNION {[1..k -> GroupSizes] : k \in 0..MaxGroups}
Totals == (0..(2 * MaxEntry)) \cup {U64_MAX}

\* ------------------------------------------------------------- fisher.rs
Alternatives == {"Less", "Greater", "TwoSided"}
FisherOps == {"fishers_exact", "fishers_exact_with_odds_ratio"}

\* The tables drawn: at most MaxCount observations in all; or exactly one
\* entry the all-ones word and at most MaxRest observations in the others;
\* or at most MaxWide observations with (n + 1) * (n1 + 1) above the word.
Entries == 0..MaxCount
SmallTables ==
    {t \in Entries \X Entries \X Entries \X Entries : t[1] + t[2] + t[3] + t[4] <= MaxCount}
HugeTables ==
    UNION {{[t EXCEPT ![i] = U64_MAX] :
               t \in {s \in SmallTables : s[i] = 0 /\ s[1] + s[2] + s[3] + s[4] <= MaxRest}} :
           i \in 1..4}
WideEntries == 0..MaxWide
WideTables ==
    {t \in WideEntries \X WideEntries \X WideEntries \X WideEntries :
        /\ t[1] + t[2] + t[3] + t[4] <= MaxWide
        /\ (t[1] + t[3] + 1) * (t[1] + t[2] + 1) > U64_MAX}
Tables == SmallTables \cup HugeTables \cup WideTables

\* IsDegenerate with the last pattern, [_, _, 0, 0], left out.
IsDegenerateThreePatterns(t) ==
    \/ t[1] = 0 /\ t[3] = 0
    \/ t[2] = 0 /\ t[4] = 0
    \/ t[1] = 0 /\ t[2] = 0

\* match table { [0, _, 0, _] | [_, 0, _, 0] => .., [0, 0, _, _] | [_, _, 0, 0] => .. }
\* (table[0..3] of the source is t[1..4] here).
IsDegenerate(t) ==
    \/ t[1] = 0 /\ t[3] = 0
    \/ t[2] = 0 /\ t[4] = 0
    \/ t[1] = 0 /\ t[2] = 0
    \/ t[3] = 0 /\ t[4] = 0

\* An f64 odds ratio: NaN, +infinity, or the quotient num / den of the two
\* u64 products converted to f64 (den = 0 with num > 0 is +infinity too).
NoOdds == [kind |-> "none", num |-> 0, den |-> 0]
NaN == [kind |-> "nan", num |-> 0, den |-> 0]
Infinity == [kind |-> "inf", num |-> 0, den |-> 0]
Panicked == [kind |-> "panic", num |-> 0, den |-> 0]

\* let odds_ratio = { if table[1] > 0 && table[2] > 0 { (table[0] * table[3]) as f64
\*                    / (table[1] * table[2]) as f64 } else { f64::INFINITY } };
OddsRatio(t) ==
    IF t[2] > 0 /\ t[3] > 0
    THEN LET nu == UMul(t[1], t[4])
             de == UMul(t[2], t[3])
         IN  IF nu = PANIC \/ de = PANIC THEN Panicked
             ELSE [kind |-> "ratio", num |-> nu, den |-> de]
    ELSE Infinity

\* What a call returns: Ok(p) (with the odds ratio, for the function that
\* returns one), Err(TableInvalidForHypergeometric), or a panic.
Pending == [tag |-> "pending", num |-> 0, den |-> 1, ulp |-> 0, odds |-> NoOdds]
Ok(num, den, ulp) ==
    [tag |-> "Ok", num |-> num, den |-> den, ulp |-> ulp,
     odds |-> IF op = "fishers_exact_with_odds_ratio" THEN odds_ratio ELSE NoOdds]
Err == [tag |-> "Err", num |-> 0, den |-> 1, ulp |-> 0, odds |-> NoOdds]
Panic == [tag |-> "Panic", num |-> 0, den |-> 1, ulp |-> 0, odds |-> NoOdds]

\* ClampOne with the .min(1.0) left out.
ClampOneMissing(num, den, ulp) == [num |-> num, ulp |-> ulp]

\* p_value.min(1.0) on num/den + ulp: the numerator and the rounding term of
\* the smaller of the value and 1.0.
ClampOne(num, den, ulp) ==
    IF num > den \/ (num = den /\ ulp > 0)
    THEN [num |-> den, ulp |-> 0]
    ELSE [num |-> num, ulp |-> ulp]

\* let mode = ((n + 1) * (n1 + 1)) / (n1 + n2 + 2);
Mode(nn, nn1, nn2) ==
    UDiv(UMul(UAdd(nn, 1), UAdd(nn1, 1)), UAdd(UAdd(nn1, nn2), 2))

\* (p_exact - p_mode).abs() / p_exact.max(p_mode) <= 1.0 - EPSILON
\* (0/0 is NaN, and NaN <= x is false).
NearMode(pe, pm) ==
    /\ Max(pe, pm) > 0
    /\ (Max(pe, pm) - Min(pe, pm)) * EpsDen <= Max(pe, pm) * (EpsDen - EpsNum)

\* p < p_exact * epsilon
BelowBand(p, pe) == p * EpsDen < pe * EpsNum
\* p > p_exact / epsilon
AboveBand(p, pe) == p * EpsNum > pe * EpsDen

\* --------------------------------------------------------------- Init
FisherInit ==
    /\ op \in FisherOps
    /\ overflow_checks \in BOOLEAN
    /\ table \in Tables
    /\ alternative \in Alternatives
    /\ pc = IF op = "fishers_exact" THEN "fishers_exact" ELSE "with_odds_ratio"
    /\ n1 = 0 /\ n2 = 0 /\ n = 0
    /\ dist = NoDist
    /\ p_exact = 0 /\ mode = 0 /\ p_tail = 0
    /\ upper = FALSE /\ min_val = 0 /\ max_val = 0 /\ guess = 0
    /\ ndist = 0
    /\ odds_ratio = NoOdds
    /\ ret = Pending
    /\ x = Limbs(0, 0, 0, 0) /\ usize_bits = 64 /\ total = 0 /\ ni = <<>>

FisherIdle ==
    /\ table = <<0, 0, 0, 0>> /\ alternative = "Less"
    /\ n1 = 0 /\ n2 = 0 /\ n = 0
    /\ dist = NoDist
    /\ p_exact = 0 /\ mode = 0 /\ p_tail = 0
    /\ upper = FALSE /\ min_val = 0 /\ max_val = 0 /\ guess = 0
    /\ ndist = 0
    /\ odds_ratio = NoOdds
    /\ ret = Pending

\* A call of factorial(x) on a platform whose usize has usize_bits bits.
FactorialInit ==
    /\ op = "factorial" /\ pc = "factorial"
    /\ overflow_checks = TRUE
    /\ x \in FactorialArgs
    /\ usize_bits \in UsizeWidths
    /\ total = 0 /\ ni = <<>>
    /\ FisherIdle

\* A call of multinomial(n, ni) or checked_multinomial(n, ni); total is n.
MultinomialInit ==
    /\ op \in {"multinomial", "checked_multinomial"} /\ pc = op
    /\ overflow_checks \in BOOLEAN
    /\ total \in Totals
    /\ ni \in GroupLists
    /\ x = Limbs(0, 0, 0, 0) /\ usize_bits = 64
    /\ FisherIdle

Init == FisherInit \/ FactorialInit \/ MultinomialInit

\* The function returns (or panics) with r.
Return(r) == pc' = "done" /\ ret' = r

Locals == <<n1, n2, n, dist, p_exact, mode, p_tail>>
Search == <<upper, min_val, max_val, guess>>
Inputs == <<op, overflow_checks, table, alternative, x, usize_bits, total, ni>>


\* --------------------------------------------------------------- factorial
Value(tag, v) == [tag |-> tag, num |-> v, den |-> 1, ulp |-> 0, odds |-> NoOdds]

\* factorial(x), lines 18-21.
factorial ==
    /\ pc = "factorial"
    /\ Return(IF Factorial(x, usize_bits) = INFINITY
              THEN Value("Infinity", 0)
              ELSE Value("Cached", Factorial(x, usize_bits)))
    /\ UNCHANGED <<Inputs, Locals, Search, ndist, odds_ratio>>

\* checked_multinomial(n, ni), lines 76-86.
checked_multinomial ==
    /\ pc = "checked_multinomial"
    /\ Return(Value(CheckedMultinomial(total, ni).tag, CheckedMultinomial(total, ni).value))
    /\ UNCHANGED <<Inputs, Locals, Search, ndist, odds_ratio>>

\* multinomial(n, ni), lines 69-71: checked_multinomial(n, ni).unwrap().
multinomial ==
    /\ pc = "multinomial"
    /\ Return(IF CheckedMultinomial(total, ni).tag = "Some"
              THEN Value("f64", CheckedMultinomial(total, ni).value)
              ELSE Panic)
    /\ UNCHANGED <<Inputs, Locals, Search, ndist, odds_ratio>>

\* ------------------------------------------- fishers_exact_with_odds_ratio
\* Lines 146-160: the degenerate table returns (NaN, 1.0); otherwise the odds
\* ratio is computed and fishers_exact is called.
fishers_exact_with_odds_ratio ==
    /\ pc = "with_odds_ratio"
    /\ IF IsDegenerate(table)
       THEN /\ Return([tag |-> "Ok", num |-> 1, den |-> 1, ulp |-> 0, odds |-> NaN])
            /\ UNCHANGED odds_ratio
       ELSE IF OddsRatio(table) = Panicked
       THEN Return(Panic) /\ UNCHANGED odds_ratio
       ELSE /\ odds_ratio' = OddsRatio(table)
            /\ pc' = "fishers_exact"
            /\ UNCHANGED ret
    /\ UNCHANGED <<Inputs, Locals, Search, ndist>>

\* ----------------------------------------------------------- fishers_exact
\* Lines 181-189: the degenerate table returns 1.0; otherwise the margins.
fishers_exact ==
    /\ pc = "fishers_exact"
    /\ IF IsDegenerate(table)
       THEN Return(Ok(1, 1, 0)) /\ UNCHANGED <<n1, n2, n>>
       ELSE LET s1 == UAdd(table[1], table[2])
                s2 == UAdd(table[3], table[4])
                s == UAdd(table[1], table[3])
            IN  IF s1 = PANIC \/ s2 = PANIC \/ s = PANIC
                THEN Return(Panic) /\ UNCHANGED <<n1, n2, n>>
                ELSE /\ n1' = s1 /\ n2' = s2 /\ n' = s
                     /\ pc' = "match"
                     /\ UNCHANGED ret
    /\ UNCHANGED <<Inputs, dist, p_exact, mode, p_tail, Search, ndist, odds_ratio>>

\* Lines 192-200 and 238: Alternative::Less.
fishers_exact_less ==
    /\ pc = "match" /\ alternative = "Less"
    /\ LET population == UAdd(n1, n2)
           d == HypNew(population, n1, n)
       IN  IF population = PANIC
           THEN Return(Panic) /\ UNCHANGED <<dist, ndist>>
           ELSE /\ dist' = d /\ ndist' = ndist + 1
                /\ IF ~d.valid
                   THEN Return(Err)
                   ELSE \E e \in RoundErr :
                          LET p == ClampOne(Cdf(d, table[1]), Total(d), e)
                          IN  Return(Ok(p.num, Total(d), p.ulp))
    /\ UNCHANGED <<Inputs, n1, n2, n, p_exact, mode, p_tail, Search, odds_ratio>>

\* Lines 192-194, 201-205 and 238: Alternative::Greater.
fishers_exact_greater ==
    /\ pc = "match" /\ alternative = "Greater"
    /\ LET population == UAdd(n1, n2)
           draws == UAdd(table[2], table[4])
           d == HypNew(population, n1, draws)
       IN  IF population = PANIC \/ draws = PANIC
           THEN Return(Panic) /\ UNCHANGED <<dist, ndist>>
           ELSE /\ dist' = d /\ ndist' = ndist + 1
                /\ IF ~d.valid
                   THEN Return(Err)
                   ELSE \E e \in RoundErr :
                          LET p == ClampOne(Cdf(d, table[2]), Total(d), e)
                          IN  Return(Ok(p.num, Total(d), p.ulp))
    /\ UNCHANGED <<Inputs, n1, n2, n, p_exact, mode, p_tail, Search, odds_ratio>>

\* Lines 206-232: Alternative::TwoSided up to its early returns or its call of
\* binary_search.
fishers_exact_two_sided ==
    /\ pc = "match" /\ alternative = "TwoSided"
    /\ LET population == UAdd(n1, n2)
           d == HypNew(population, n1, n)
           pe == Pmf(d, table[1])
           m == Mode(n, n1, n2)
           a_1 == USub(table[1], 1)
       IN  IF population = PANIC
           THEN Return(Panic) /\ UNCHANGED <<dist, ndist, p_exact, mode, p_tail, Search>>
           ELSE IF ~d.valid
           THEN /\ Return(Err) /\ dist' = d /\ ndist' = ndist + 1
                /\ UNCHANGED <<p_exact, mode, p_tail, Search>>
           ELSE IF m = PANIC
           THEN /\ Return(Panic) /\ dist' = d /\ ndist' = ndist + 1
                /\ UNCHANGED <<p_exact, mode, p_tail, Search>>
           ELSE /\ dist' = d /\ p_exact' = pe /\ mode' = m
                /\ IF NearMode(pe, Pmf(d, m))
                   THEN \* line 215
                        /\ Return(Ok(1, 1, 0)) /\ ndist' = ndist + 1
                        /\ UNCHANGED <<p_tail, Search>>
                   ELSE IF table[1] < m
                   THEN /\ p_tail' = Cdf(d, table[1])
                        /\ IF AboveBand(Pmf(d, n), pe)
                           THEN \* line 221
                                /\ \E e \in RoundErr : Return(Ok(Cdf(d, table[1]), Total(d), e))
                                /\ ndist' = ndist + 1
                                /\ UNCHANGED Search
                           ELSE \* line 223: binary_search(.., upper = true)
                                /\ upper' = TRUE
                                /\ ndist' = ndist + 1
                                /\ pc' = "binary_search"
                                /\ UNCHANGED <<ret, min_val, max_val, guess>>
                   ELSE IF a_1 = PANIC
                   THEN \* line 227
                        /\ Return(Panic) /\ ndist' = ndist + 1
                        /\ UNCHANGED <<p_tail, Search>>
                   ELSE /\ p_tail' = Total(d) - Cdf(d, a_1)
                        /\ IF AboveBand(Pmf(d, 0), pe)
                           THEN \* line 229
                                /\ \E e \in RoundErr :
                                     Return(Ok(Total(d) - Cdf(d, a_1), Total(d), e))
                                /\ ndist' = ndist + 1
                                /\ UNCHANGED Search
                           ELSE \* line 232: binary_search(.., upper = false)
                                /\ upper' = FALSE
                                /\ ndist' = ndist + 1
                                /\ pc' = "binary_search"
                                /\ UNCHANGED <<ret, min_val, max_val, guess>>
    /\ UNCHANGED <<Inputs, n1, n2, n, odds_ratio>>

\* ----------------------------------------------------------- binary_search
\* Lines 16-29: the starting interval, the distribution (unwrapped) and the
\* first guess.
binary_search ==
    /\ pc = "binary_search"
    /\ LET population == UAdd(n1, n2)
           d == HypNew(population, n1, n)
       IN  IF population = PANIC \/ ~d.valid
           THEN Return(Panic) /\ UNCHANGED <<dist, ndist, min_val, max_val, guess>>
           ELSE /\ min_val' = IF upper THEN mode ELSE 0
                /\ max_val' = IF upper THEN n ELSE mode
                /\ dist' = d /\ ndist' = ndist + 1
                /\ guess' = 0
                /\ pc' = "loop"
                /\ UNCHANGED ret
    /\ UNCHANGED <<Inputs, n1, n2, n, p_exact, mode, p_tail, upper, odds_ratio>>

\* NextGuess with the midpoint taken of min_val and min_val.
NextGuessStuck(lo, hi, g) ==
    IF hi = UAdd(lo, 1) /\ g = lo THEN hi ELSE UDiv(UAdd(lo, lo), 2)

\* Lines 34-40: the next guess.
NextGuess(lo, hi, g) ==
    IF hi = UAdd(lo, 1) /\ g = lo THEN hi ELSE UDiv(UAdd(hi, lo), 2)

\* Lines 31-33: the bisection loop ends when the interval is at most 1 wide.
LoopExit(lo, hi) == USub(hi, lo) # PANIC /\ USub(hi, lo) <= 1

\* Lines 42-48: the neighbour of the guess on the side of the mode.
Neighbour(g) == IF upper THEN USub(g, 1) ELSE UAdd(g, 1)

\* Lines 52-54: the guess is the crossing.
Crossing(g, ng) == Pmf(dist, g) <= p_exact /\ p_exact < Pmf(dist, ng)

\* Lines 30-60: one pass of the bisection loop.
binary_search_loop ==
    /\ pc = "loop"
    /\ IF USub(max_val, min_val) = PANIC
       THEN Return(Panic) /\ UNCHANGED Search
       ELSE IF LoopExit(min_val, max_val)
       THEN pc' = "fix" /\ UNCHANGED <<ret, Search>>
       ELSE LET g == NextGuess(min_val, max_val, guess)
                ng == Neighbour(g)
            IN  IF g = PANIC \/ ng = PANIC
                THEN Return(Panic) /\ UNCHANGED Search
                ELSE /\ guess' = g
                     /\ UNCHANGED <<ret, upper>>
                     /\ IF Crossing(g, ng)
                        THEN pc' = "fix" /\ UNCHANGED <<min_val, max_val>>
                        ELSE /\ pc' = "loop"
                             /\ IF Pmf(dist, g) < p_exact
                                THEN max_val' = g /\ UNCHANGED min_val
                                ELSE min_val' = g /\ UNCHANGED max_val
    /\ UNCHANGED <<Inputs, Locals, ndist, odds_ratio>>

\* Lines 62-64: if guess == 0 { guess = min_val }.
binary_search_fix ==
    /\ pc = "fix"
    /\ guess' = IF guess = 0 THEN min_val ELSE guess
    /\ pc' = "settle1"
    /\ UNCHANGED <<Inputs, Locals, upper, min_val, max_val, ndist, odds_ratio, ret>>

\* Lines 66-72 (upper) and 81-87 (lower): the first settle loop, one pass.
Settle1Moves == IF upper THEN guess > 0 /\ BelowBand(Pmf(dist, guess), p_exact)
                ELSE BelowBand(Pmf(dist, guess), p_exact)
Settle1Step(g) == IF upper THEN USub(g, 1) ELSE UAdd(g, 1)

binary_search_settle1 ==
    /\ pc = "settle1"
    /\ IF Settle1Moves
       THEN IF Settle1Step(guess) = PANIC
            THEN Return(Panic) /\ UNCHANGED guess
            ELSE guess' = Settle1Step(guess) /\ UNCHANGED <<pc, ret>>
       ELSE pc' = "settle2" /\ UNCHANGED <<guess, ret>>
    /\ UNCHANGED <<Inputs, Locals, upper, min_val, max_val, ndist, odds_ratio>>

\* Lines 73-79 (upper) and 88-94 (lower): the second settle loop, one pass.
Settle2Moves == IF upper THEN AboveBand(Pmf(dist, guess), p_exact)
                ELSE guess > 0 /\ AboveBand(Pmf(dist, guess), p_exact)
Settle2Step(g) == IF upper THEN UAdd(g, 1) ELSE USub(g, 1)

binary_search_settle2 ==
    /\ pc = "settle2"
    /\ IF Settle2Moves
       THEN IF Settle2Step(guess) = PANIC
            THEN Return(Panic) /\ UNCHANGED guess
            ELSE guess' = Settle2Step(guess) /\ UNCHANGED <<pc, ret>>
       ELSE pc' = "searched" /\ UNCHANGED <<guess, ret>>
    /\ UNCHANGED <<Inputs, Locals, upper, min_val, max_val, ndist, odds_ratio>>

\* Line 96 and lines 224 (upper) or 233, 238 (lower): binary_search returns
\* guess and fishers_exact returns the sum of the two tails.
fishers_exact_return ==
    /\ pc = "searched"
    /\ IF upper
       THEN LET g_1 == USub(guess, 1)
            IN  IF g_1 = PANIC THEN Return(Panic)
                ELSE \E e \in RoundErr :
                       Return(Ok(p_tail + Total(dist) - Cdf(dist, g_1), Total(dist), e))
       ELSE \E e \in RoundErr :
              LET p == ClampOne(p_tail + Cdf(dist, guess), Total(dist), e)
              IN  Return(Ok(p.num, Total(dist), p.ulp))
    /\ UNCHANGED <<Inputs, Locals, Search, ndist, odds_ratio>>

Next ==
    \/ factorial
    \/ checked_multinomial
    \/ multinomial
    \/ fishers_exact_with_odds_ratio
    \/ fishers_exact
    \/ fishers_exact_less
    \/ fishers_exact_greater
    \/ fishers_exact_two_sided
    \/ binary_search
    \/ binary_search_loop
    \/ binary_search_fix
    \/ binary_search_settle1
    \/ binary_search_settle2
    \/ fishers_exact_return

Spec == Init /\ [][Next]_vars

\* The calls fishers_exact(table, TwoSided), the only ones that reach
\* binary_search, under the fairness of a sequential program: a function that
\* can take its next step takes it.
SearchInit == FisherInit /\ op = "fishers_exact" /\ alternative = "TwoSided"

SearchNext ==
    \/ fishers_exact
    \/ fishers_exact_two_sided
    \/ binary_search
    \/ binary_search_loop
    \/ binary_search_fix
    \/ binary_search_settle1
    \/ binary_search_settle2
    \/ fishers_exact_return

FairSpec == SearchInit /\ [][SearchNext]_vars /\ WF_vars(SearchNext)

\* ================================================================ claims
\* The margins of a table and the distribution they define, in true
\* integers.
ZeroMargin(t) ==
    \/ t[1] + t[2] = 0 \/ t[3] + t[4] = 0
    \/ t[1] + t[3] = 0 \/ t[2] + t[4] = 0
MarginsFit(t) ==
    /\ t[1] + t[2] <= U64_MAX /\ t[3] + t[4] <= U64_MAX
    /\ t[1] + t[3] <= U64_MAX /\ t[2] + t[4] <= U64_MAX
TrueDist(t) == HypNew(t[1] + t[2] + t[3] + t[4], t[1] + t[2], t[1] + t[3])

FisherDone == pc = "done" /\ op \in FisherOps
IsOne(r) == r.tag = "Ok" /\ r.num = r.den /\ r.ulp = 0

\* C1: a table with a zero row or a zero column makes fishers_exact return
\* Ok(1.0) and fishers_exact_with_odds_ratio return Ok((NaN, 1.0)), for every
\* alternative and whatever the other entries are, with no distribution
\* constructed; and the match accepts exactly those tables.
C1_DegenerateShortCircuit ==
    /\ op \in FisherOps => (IsDegenerate(table) <=> ZeroMargin(table))
    /\ (FisherDone /\ ZeroMargin(table)) =>
          /\ IsOne(ret)
          /\ ndist = 0
          /\ ret.odds = IF op = "fishers_exact_with_odds_ratio" THEN NaN ELSE NoOdds
    /\ (FisherDone /\ ~ZeroMargin(table) /\ ret.tag = "Ok") => ndist > 0

C1_Witness ==
    /\ FisherDone /\ op = "fishers_exact_with_odds_ratio"
    /\ table = <<0, U64_MAX, 0, MaxRest>> /\ alternative = "TwoSided"
    /\ IsOne(ret) /\ ret.odds = NaN /\ ndist = 0

\* The mass of the outcomes at most as probable as the observed one, within
\* the tolerance: sum of pmf(k) over the support with pmf(k) * EPSILON <= pmf(a).
RECURSIVE ExtremeMass(_, _, _)
ExtremeMass(d, a, k) ==
    IF k > HypMax(d) THEN 0
    ELSE (IF Pmf(d, k) * EpsNum <= Pmf(d, a) * EpsDen THEN Pmf(d, k) ELSE 0)
         + ExtremeMass(d, a, k + 1)

TwoSidedValue(t) == Min(Total(TrueDist(t)), ExtremeMass(TrueDist(t), t[1], HypMin(TrueDist(t))))

\* r is Ok(p) with p = num / Total(TrueDist(t)), up to rounding.
ReturnsValue(r, t, num) ==
    /\ r.tag = "Ok"
    /\ \/ r.den = Total(TrueDist(t)) /\ r.num = num
       \/ r.num = r.den /\ num = Total(TrueDist(t))

\* C2: for every non-degenerate table, fishers_exact(table, TwoSided) returns
\* min(1, sum of pmf(k) over the k with pmf(k) <= pmf(a) within the tolerance).
\* (On a table whose arithmetic overflows the formula asks only that a
\* p-value is returned.)
C2_TwoSidedValue ==
    (pc = "done" /\ op = "fishers_exact" /\ alternative = "TwoSided"
        /\ ~ZeroMargin(table)) =>
        /\ ret.tag = "Ok"
        /\ table \in SmallTables => ReturnsValue(ret, table, TwoSidedValue(table))

\* C2 on the tables whose arithmetic does not overflow.
TwoSidedValueInRange ==
    (FisherDone /\ alternative = "TwoSided" /\ ~ZeroMargin(table)
        /\ table \in SmallTables) =>
        ReturnsValue(ret, table, TwoSidedValue(table))

C4_NeverFails ==
    (pc = "done" /\ op = "fishers_exact" /\ ~ZeroMargin(table) /\ MarginsFit(table)) =>
        ret.tag = "Ok"

\* C4 on the tables whose arithmetic does not overflow.
NeverFailsInRange ==
    (FisherDone /\ table \in SmallTables) => ret.tag = "Ok"

\* C5: for every non-degenerate table, Less returns P(X <= a) and Greater
\* returns P(X >= a), X ~ Hypergeometric(a+b+c+d, a+b, a+c).
\* (On a table whose arithmetic overflows the formula asks only that a
\* p-value is returned.)
C5_OneSidedTails ==
    (pc = "done" /\ op = "fishers_exact" /\ alternative # "TwoSided"
        /\ ~ZeroMargin(table)) =>
        /\ ret.tag = "Ok"
        /\ table \in SmallTables =>
             IF alternative = "Less"
             THEN ReturnsValue(ret, table, Cdf(TrueDist(table), table[1]))
             ELSE ReturnsValue(ret, table,
                      Total(TrueDist(table)) - Cdf(TrueDist(table), table[1] - 1))

\* C5 on the tables whose arithmetic does not overflow.
OneSidedTailsInRange ==
    (FisherDone /\ alternative # "TwoSided" /\ ~ZeroMargin(table)
        /\ table \in SmallTables) =>
        IF alternative = "Less"
        THEN ReturnsValue(ret, table, Cdf(TrueDist(table), table[1]))
        ELSE ReturnsValue(ret, table,
                 Total(TrueDist(table)) - Cdf(TrueDist(table), table[1] - 1))

\* C6: for every non-degenerate table the odds ratio returned is the true
\* quotient (a*d)/(b*c) when b and c are positive and +infinity otherwise.
TrueOdds(t) ==
    IF t[2] > 0 /\ t[3] > 0
    THEN [kind |-> "ratio", num |-> t[1] * t[4], den |-> t[2] * t[3]]
    ELSE Infinity

C6_OddsRatio ==
    (FisherDone /\ op = "fishers_exact_with_odds_ratio" /\ ~ZeroMargin(table)) =>
        ret.tag = "Ok" /\ ret.odds = TrueOdds(table)

\* C6 on the tables whose arithmetic does not overflow.
OddsRatioInRange ==
    (FisherDone /\ op = "fishers_exact_with_odds_ratio" /\ ~ZeroMargin(table)
        /\ table \in SmallTables) =>
        ret.tag = "Ok" /\ ret.odds = TrueOdds(table)

\* C7: checked_multinomial(n, ni) returns None exactly when the group sizes
\* do not sum to n (in true integers) and Some(coefficient) exactly when they
\* do, and never aborts; multinomial(n, ni) panics exactly where
\* checked_multinomial returns None and otherwise returns the same value.
RECURSIVE TrueSum(_, _)
TrueSum(groups, i) == IF i > Len(groups) THEN 0 ELSE groups[i] + TrueSum(groups, i + 1)

RECURSIVE LnSum(_, _)
LnSum(groups, i) ==
    IF i > Len(groups) THEN [huge |-> 0, num |-> 1, den |-> 1]
    ELSE LnMinus(LnSum(groups, i + 1),
                 [huge |-> 0 - LnFactorial(groups[i]).huge,
                  num |-> 1, den |-> LnFactorial(groups[i]).num])

TrueCoefficient(nn, groups) == RoundExp(LnMinus(LnFactorial(nn), LnSum(groups, 1)))

C7_ExactSumCheck ==
    /\ (pc = "done" /\ op = "checked_multinomial") =>
          IF TrueSum(ni, 1) = total
          THEN ret.tag = "Some" /\ ret.num = TrueCoefficient(total, ni)
          ELSE ret.tag = "None"
    /\ (pc = "done" /\ op = "multinomial") =>
          IF TrueSum(ni, 1) = total
          THEN ret.tag = "f64" /\ ret.num = TrueCoefficient(total, ni)
          ELSE ret.tag = "Panic"

\* C7 on the group sizes whose sum does not overflow.
ExactSumCheckInRange ==
    (pc = "done" /\ TrueSum(ni, 1) <= U64_MAX) => C7_ExactSumCheck

\* C8: the cache has MAX_FACTORIAL + 1 = 171 entries, entry 0 is 1 and entry i
\* is entry i - 1 times i; factorial(x) returns entry x for every x <= 170 and
\* +infinity for every other u64 x, on every platform.
C8_FactorialSaturates ==
    (pc = "done" /\ op = "factorial") =>
        /\ DOMAIN FCACHE = 0..170
        /\ IF LimbsBelow(x, 171)
           THEN /\ ret.tag = "Cached" /\ ret.num = x[4]
                /\ FCACHE[x[4]] = IF x[4] = 0 THEN <<>> ELSE Times(FCACHE[x[4] - 1], x[4])
           ELSE ret.tag = "Infinity"

\* C8 on the platforms whose usize holds every u64.
FactorialSaturates64 ==
    (pc = "done" /\ op = "factorial" /\ usize_bits = 64) => C8_FactorialSaturates

\* C9: binary_search terminates on every call fishers_exact makes: a pass of
\* the bisection loop that does not leave the loop strictly shrinks
\* max_val - min_val and keeps min_val <= guess <= max_val inside the starting
\* interval; the loops end; and the guess returned has a pmf that is not above
\* p_exact / epsilon.
StartLo == IF upper THEN mode ELSE 0
StartHi == IF upper THEN n ELSE mode

C10_ForcedEndpoint ==
    [][(pc = "loop" /\ max_val = min_val + 1 /\ guess = min_val /\ min_val > StartLo)
          => (guess' = max_val)]_vars

\* The branch of line 36 is never taken: the loop is left at line 31 whenever
\* its condition could hold.
ForcedEndpointIsDead ==
    (pc = "loop" /\ ~LoopExit(min_val, max_val)) => max_val # min_val + 1
====
